---- MODULE Spec2Model ----
(***************************************************************************)
(* A model of lss, a secret scanner: the rule loader (src/src/rules.rs),   *)
(* the entropy calculator (src/src/lib.rs) and the scan driver with its    *)
(* match aggregator, ignore resolver, parallel file phase and git history  *)
(* traversal (src/src/main.rs).                                            *)
(*                                                                         *)
(* Text is a sequence of one-character strings.  An f64 is modelled by a   *)
(* rational in lowest terms, and the f64 operations of the confidence      *)
(* computation (parse, 1.0 - c, prod *= x) round their exact result to the *)
(* nearest value of a binary format with MantissaBits significant bits.    *)
(***************************************************************************)
EXTENDS Integers, Sequences, FiniteSets, Bags, TLC

VARIABLES
    rtext,      \* parse_rules: the lines of the rule text s
    rpos,       \* parse_rules: index of the next line of s.lines()
    v,          \* parse_rules: the Vec<Rule> being built
    aIn,        \* aggregator run: [lines, patterns, threshold], the text scanned
    aFile,      \* aggregator run: what scan_file returned for aIn, or None
    aBlob,      \* aggregator run: what scan_git_history pushed for aIn as a blob
    world,      \* main: the file system, the repositories and the options of the run
    patterns,   \* main: the rule set, default_patterns() extended by --rules-file
    ignores,    \* main: ignore strings of config.toml and --ignore-file
    ignore_fileset, \* main: the entries of <path>/.lssignore
    entries,    \* main: the regular files the directory walk yielded
    task,       \* main: per entry, the parallel task's position pc and its own Vec r
    results_files,  \* main: the collected file findings, None until the join
    git,        \* main: the sequential git phase: pc, directory entries left,
                \*       and scan_git_history's repo, revwalk, commit, stack, findings
    results_git,    \* main: findings appended from the repositories scanned so far
    results     \* main: the output, None until both phases are over

rulesVars == <<rtext, rpos, v>>
aggVars == <<aIn, aFile, aBlob>>
mainVars == <<world, patterns, ignores, ignore_fileset, entries, task,
              results_files, git, results_git, results>>
vars == <<rulesVars, aggVars, mainVars>>

\* Option<T>: None is <<>>, Some(x) is <<x>>.
None == <<>>
Some(x) == <<x>>

\* The parts of the state a specification does not use stay at these values.
RulesIdle == rtext = <<>> /\ rpos = 0 /\ v = <<>>
AggIdle == aIn = None /\ aFile = None /\ aBlob = None
MainIdle ==
    /\ world = None /\ patterns = <<>> /\ ignores = {} /\ ignore_fileset = {}
    /\ entries = <<>> /\ task = <<>> /\ results_files = None
    /\ git = None /\ results_git = EmptyBag /\ results = None

(***************************************************************************)
(* Bounds of the model.                                                    *)
(***************************************************************************)
MaxRuleLines == 3
MaxLines == 2
MaxRules == 3
\* commits in the longest history that is walked
MaxCommits == 3
\* bits of the significand of the binary floating-point format (f64 has 53)
MantissaBits == 8

(***************************************************************************)
(* Text helpers: str::trim, str::starts_with, str::contains, str::split.   *)
(***************************************************************************)
Range(s) == {s[i] : i \in DOMAIN s}

RECURSIVE TrimStart(_)
TrimStart(s) == IF s # <<>> /\ Head(s) = " " THEN TrimStart(Tail(s)) ELSE s

RECURSIVE TrimEnd(_)
TrimEnd(s) ==
    IF s # <<>> /\ s[Len(s)] = " " THEN TrimEnd(SubSeq(s, 1, Len(s) - 1)) ELSE s

Trim(s) == TrimEnd(TrimStart(s))

StartsWith(s, p) == Len(p) <= Len(s) /\ SubSeq(s, 1, Len(p)) = p

Contains(s, sub) ==
    \E i \in 1..(Len(s) - Len(sub) + 1) : SubSeq(s, i, i + Len(sub) - 1) = sub

RECURSIVE SplitFrom(_, _, _)
SplitFrom(s, d, cur) ==
    IF s = <<>> THEN <<cur>>
    ELSE IF StartsWith(s, d)
         THEN <<cur>> \o SplitFrom(SubSeq(s, Len(d) + 1, Len(s)), d, <<>>)
         ELSE SplitFrom(Tail(s), d, Append(cur, Head(s)))

Split(s, d) == SplitFrom(s, d, <<>>)

RECURSIVE Join(_, _)
Join(parts, d) ==
    IF parts = <<>> THEN <<>>
    ELSE IF Len(parts) = 1 THEN parts[1]
    ELSE parts[1] \o d \o Join(Tail(parts), d)

(***************************************************************************)
(* f64 values as rationals [num, den] in lowest terms, den > 0.  Rat* are  *)
(* the exact operations on them; F64 rounds an exact value to the nearest  *)
(* value of the format (ties to even), as every f64 operation does, with a *)
(* significand of MantissaBits bits; exponents are unbounded (no value of  *)
(* the model is near the overflow or subnormal range).                     *)
(***************************************************************************)
Abs(x) == IF x < 0 THEN -x ELSE x

Gcd[a \in Nat, b \in Nat] == IF b = 0 THEN a ELSE Gcd[b, a % b]

LowestTerms[n \in Int, d \in Int] ==
    LET g == Gcd[Abs(n), Abs(d)]
        s == IF d < 0 THEN -1 ELSE 1
    IN  [num |-> s * (n \div g), den |-> s * (d \div g)]

Rat(n, d) == LowestTerms[n, d]

RatInt(n) == [num |-> n, den |-> 1]
RatSub(a, b) == Rat(a.num * b.den - b.num * a.den, a.den * b.den)
RatMul(a, b) == Rat(a.num * b.num, a.den * b.den)
RatLt(a, b) == a.num * b.den < b.num * a.den
RatLe(a, b) == a.num * b.den <= b.num * a.den

RECURSIVE Pow(_, _)
Pow(b, e) == IF e = 0 THEN 1 ELSE b * Pow(b, e - 1)

\* the largest e with 2^e <= n, the smallest e with n <= 2^e
Log2Floor[n \in Nat] == IF n <= 1 THEN 0 ELSE 1 + Log2Floor[n \div 2]
Log2Ceil[n \in Nat] == IF n <= 1 THEN 0 ELSE 1 + Log2Ceil[(n + 1) \div 2]

Rational == [num : Int, den : Nat]

\* N/D rounded to the nearest integer, ties to even
NearestInt[N \in Nat, D \in Nat] ==
    LET fl == N \div D
        r2 == 2 * (N % D)
    IN  IF r2 > D THEN fl + 1
        ELSE IF r2 = D /\ fl % 2 = 1 THEN fl + 1
        ELSE fl

\* q rounded to MantissaBits significant bits: with 2^e <= |q| < 2^(e+1), the
\* nearest multiple of 2^(e + 1 - MantissaBits)
RoundToNearest[q \in Rational] ==
    IF q.num = 0 THEN q
    ELSE LET a     == Abs(q.num)
             d     == q.den
             e     == IF a >= d THEN Log2Floor[a \div d] ELSE -Log2Ceil[(d + a - 1) \div a]
             shift == MantissaBits - 1 - e
             up    == IF shift > 0 THEN Pow(2, shift) ELSE 1
             down  == IF shift < 0 THEN Pow(2, -shift) ELSE 1
             g     == Gcd[up, d]
             m     == NearestInt[a * (up \div g), (d \div g) * down]
         IN  LowestTerms[(IF q.num < 0 THEN -1 ELSE 1) * m * down, up]

F64(q) == RoundToNearest[q]

\* the f64 operators - and *
F64Sub(a, b) == F64(RatSub(a, b))
F64Mul(a, b) == F64(RatMul(a, b))

(***************************************************************************)
(* str::parse::<f64> on decimal literals: [+-] digits [. digits], with at  *)
(* least one digit.  Result [ok, val]; ok = FALSE models Err.              *)
(***************************************************************************)
Digits == <<"0", "1", "2", "3", "4", "5", "6", "7", "8", "9">>
IsDigit(c) == \E i \in 1..10 : Digits[i] = c
DigitVal(c) == (CHOOSE i \in 1..10 : Digits[i] = c) - 1

RECURSIVE DecVal(_, _)
DecVal(s, acc) == IF s = <<>> THEN acc ELSE DecVal(Tail(s), 10 * acc + DigitVal(Head(s)))

ParseF64(tok) ==
    LET neg  == tok # <<>> /\ Head(tok) = "-"
        body == IF tok # <<>> /\ Head(tok) \in {"-", "+"} THEN Tail(tok) ELSE tok
        ps   == Split(body, <<".">>)
        ip   == ps[1]
        fp   == IF Len(ps) = 2 THEN ps[2] ELSE <<>>
        ok   == /\ Len(ps) <= 2
                /\ \A i \in DOMAIN ip : IsDigit(ip[i])
                /\ \A i \in DOMAIN fp : IsDigit(fp[i])
                /\ Len(ip) + Len(fp) >= 1
        mag  == Rat(DecVal(ip, 0) * Pow(10, Len(fp)) + DecVal(fp, 0), Pow(10, Len(fp)))
    IN  IF ok THEN [ok |-> TRUE, val |-> F64(IF neg THEN RatSub(RatInt(0), mag) ELSE mag)]
        ELSE [ok |-> FALSE, val |-> RatInt(0)]

(***************************************************************************)
(* Regex::new and Regex::is_match for the patterns of the model: literal   *)
(* characters and the wildcard ".", searched anywhere in the line; an      *)
(* unclosed group "(" does not compile.                                    *)
(***************************************************************************)
RegexCompiles(pat) == \A i \in DOMAIN pat : pat[i] # "("

MatchAt(pat, line, i) ==
    \A k \in DOMAIN pat : pat[k] = "." \/ pat[k] = line[i + k - 1]

is_match(pat, line) ==
    \E i \in 1..(Len(line) - Len(pat) + 1) : MatchAt(pat, line, i)

(***************************************************************************)
(* rules.rs: the body of parse_rules' loop for one line; <<>> when the     *)
(* line pushes nothing, <<rule>> when it pushes a Rule.                    *)
(***************************************************************************)
RECURSIVE NonEmptyTrimmed(_)
NonEmptyTrimmed(fields) ==
    IF fields = <<>> THEN <<>>
    ELSE LET t == Trim(Head(fields))
         IN  (IF t = <<>> THEN <<>> ELSE <<t>>) \o NonEmptyTrimmed(Tail(fields))

DefaultConfidence == Rat(1, 2)

IsBlankOrComment(line) ==
    LET l == Trim(line) IN IF l = <<>> THEN TRUE ELSE Head(l) = "#"

RuleParts(line) == Split(Trim(line), <<":", ":">>)

RuleConfidence(parts) ==
    IF Len(parts) >= 4 /\ ParseF64(Trim(parts[4])).ok
    THEN ParseF64(Trim(parts[4])).val
    ELSE DefaultConfidence

RuleOf(parts) ==
    [name       |-> Trim(parts[1]),
     pattern    |-> Trim(parts[2]),
     tags       |-> IF Len(parts) >= 3
                    THEN NonEmptyTrimmed(Split(parts[3], <<",">>))
                    ELSE <<>>,
     confidence |-> RuleConfidence(parts)]

ParseRuleLine(line) ==
    IF IsBlankOrComment(line) THEN <<>>
    ELSE IF Len(RuleParts(line)) < 2 THEN <<>>
    ELSE IF ~RegexCompiles(Trim(RuleParts(line)[2])) THEN <<>>
    ELSE <<RuleOf(RuleParts(line))>>

RECURSIVE parse_rules(_)
parse_rules(s) ==
    IF s = <<>> THEN <<>> ELSE ParseRuleLine(Head(s)) \o parse_rules(Tail(s))


(***************************************************************************)
(* lib.rs: shannon_entropy(s) >= t for a threshold of t whole bits.  With  *)
(* n = len(s) and c_b the count of byte b, H = log2 n - (1/n) SUM c_b log2 *)
(* c_b, so H >= t iff n^n >= 2^(n t) * PROD c_b^c_b; the empty string has  *)
(* entropy 0.0.                                                            *)
(***************************************************************************)
ByteCount(s, b) == Cardinality({i \in DOMAIN s : s[i] = b})

ProdCountPow[s \in Seq(STRING), bytes \in SUBSET STRING] ==
    IF bytes = {} THEN 1
    ELSE LET b == CHOOSE x \in bytes : TRUE
         IN  Pow(ByteCount(s, b), ByteCount(s, b)) * ProdCountPow[s, bytes \ {b}]

shannon_entropy_ge(s, t) ==
    IF s = <<>> THEN 0 >= t
    ELSE LET n == Len(s)
         IN  /\ Pow(2, n * t) <= Pow(n, n)
             /\ ProdCountPow[s, Range(s)] <= Pow(n, n) \div Pow(2, n * t)

(***************************************************************************)
(* main.rs: the match aggregator.  map is the HashMap keyed by             *)
(* (line number, trimmed line); an entry is (names, tagset, confidences).  *)
(***************************************************************************)
EmptyEntry == [names |-> <<>>, tags |-> {}, confs |-> <<>>]

\* faulty variant: the key loses the line number
AggKeyNoLine(i, line) == <<1, Trim(line)>>

AggKey(i, line) == <<i, Trim(line)>>

\* map.entry(key).or_insert(..); entry.0.push(name); entry.1.insert(t)..; entry.2.push(c)
RecordMatch(map, key, rule) ==
    LET Push(old) == [names |-> Append(old.names, rule.name),
                      tags  |-> old.tags \cup Range(rule.tags),
                      confs |-> Append(old.confs, rule.confidence)]
        Insert(m, at) == [k \in DOMAIN m \cup {at} |->
                             IF k # at THEN m[k]
                             ELSE IF at \in DOMAIN m THEN Push(m[at]) ELSE Push(EmptyEntry)]
    IN  CHOOSE after \in {Insert(m, at) : m \in {map}, at \in {key}} : TRUE

EmptyMap == [k \in {} |-> EmptyEntry]

\* scan_file's loops: lines outside, rules inside; step k of Len(lines) * Len(rules)
RECURSIVE FileMatches(_, _, _, _)
FileMatches(lines, rules, k, map) ==
    IF k >= Len(lines) * Len(rules) THEN map
    ELSE LET i    == (k \div Len(rules)) + 1
             rule == rules[(k % Len(rules)) + 1]
         IN  FileMatches(lines, rules, k + 1,
                 IF is_match(rule.pattern, lines[i])
                 THEN RecordMatch(map, AggKey(i, lines[i]), rule)
                 ELSE map)

\* faulty variant: a blob's matches recorded without the entropy test
BlobMatchesNoEntropy(lines, rules, threshold, k, map) ==
    FileMatches(lines, rules, 0, map)

\* scan_git_history's loops: rules outside, lines inside, with the entropy test
RECURSIVE BlobMatches(_, _, _, _, _)
BlobMatches(lines, rules, threshold, k, map) ==
    IF k >= Len(lines) * Len(rules) THEN map
    ELSE LET rule == rules[(k \div Len(lines)) + 1]
             i    == (k % Len(lines)) + 1
         IN  BlobMatches(lines, rules, threshold, k + 1,
                 IF /\ is_match(rule.pattern, lines[i])
                    /\ shannon_entropy_ge(lines[i], threshold)
                 THEN RecordMatch(map, AggKey(i, lines[i]), rule)
                 ELSE map)

\* let mut prod = 1.0; for c in confidences { prod *= 1.0 - c }
ProdOneMinus[confs \in Seq(Rational), prod \in Rational] ==
    IF confs = <<>> THEN prod
    ELSE ProdOneMinus[Tail(confs), F64Mul(prod, F64Sub(RatInt(1), Head(confs)))]

\* let combined = 1.0 - prod;
CombinedConfidence(confs) == F64Sub(RatInt(1), ProdOneMinus[confs, RatInt(1)])

\* for ((line, snippet), (names, tagset, confidences)) in map { findings.push(..) }
FindingsOf(path, map) ==
    LET Drain(m) == { [path          |-> path,
                       line          |-> key[1],
                       snippet       |-> key[2],
                       matched_rules |-> m[key].names,
                       tags          |-> m[key].tags,
                       confidence    |-> CombinedConfidence(m[key].confs)]
                     : key \in DOMAIN m }
    IN  SetToBag(UNION {Drain(m) : m \in {map}})

ScanText(path, lines, rules) ==
    FindingsOf(path, FileMatches(lines, rules, 0, EmptyMap))

ScanBlob(path, lines, rules, threshold) ==
    FindingsOf(path, BlobMatches(lines, rules, threshold, 0, EmptyMap))

(***************************************************************************)
(* One text scanned both ways: as a file's content by scan_file and as a   *)
(* blob's content by scan_git_history.                                     *)
(***************************************************************************)
LinePool ==
    { <<" ", "x">>,
      <<"x", "y">>,
      <<" ", " ", " ", " ", " ", " ", " ", "x", "y">>,
      <<"x", "y", "z", "w">>,
      <<"z", "w">> }

RulePool ==
    { [name |-> <<"a">>, pattern |-> <<"x">>, tags |-> <<<<"t">>>>, confidence |-> Rat(1, 2)],
      [name |-> <<"b">>, pattern |-> <<"y">>, tags |-> <<<<"t">>, <<"u">>>>, confidence |-> Rat(3, 4)],
      [name |-> <<"a">>, pattern |-> <<"x", ".">>, tags |-> <<>>, confidence |-> F64(Rat(1, 10))] }

Thresholds == {0, 1, 2}

SeqsUpTo(S, n) == UNION {[1..k -> S] : k \in 0..n}

AggPath == <<"f">>

InitAgg ==
    /\ aIn \in [lines : SeqsUpTo(LinePool, MaxLines),
                patterns : SeqsUpTo(RulePool, MaxRules),
                threshold : Thresholds]
    /\ aFile = None
    /\ aBlob = None
    /\ RulesIdle
    /\ MainIdle

RunScanFile ==
    /\ aFile = None
    /\ aFile' = Some(ScanText(AggPath, aIn.lines, aIn.patterns))
    /\ UNCHANGED <<aIn, aBlob, rulesVars, mainVars>>

RunScanBlob ==
    /\ aBlob = None
    /\ aBlob' = Some(ScanBlob(AggPath, aIn.lines, aIn.patterns, aIn.threshold))
    /\ UNCHANGED <<aIn, aFile, rulesVars, mainVars>>

NextAgg == RunScanFile \/ RunScanBlob

SpecAgg == InitAgg /\ [][NextAgg]_vars

(***************************************************************************)
(* Claims about the match aggregator, stated over SpecAgg.                 *)
(***************************************************************************)
\* The rules of the rule set whose pattern matches line i, in rule-set order.
MatchingRules(i) ==
    LET idx == {r \in DOMAIN aIn.patterns : is_match(aIn.patterns[r].pattern, aIn.lines[i])}
        nth(k) == CHOOSE r \in idx : Cardinality({q \in idx : q <= r}) = k
    IN  [k \in 1..Cardinality(idx) |-> aIn.patterns[nth(k)]]

LineEntropyOk(i) == shannon_entropy_ge(aIn.lines[i], aIn.threshold)

TagUnion(rules) == UNION {Range(rules[k].tags) : k \in DOMAIN rules}

\* out holds exactly one Finding for line i, merged from the rules contrib.
MergedFinding(out, i, contrib) ==
    \E f \in BagToSet(out) :
        /\ {g \in BagToSet(out) : g.line = i} = {f}
        /\ CopiesIn(f, out) = 1
        /\ f.snippet = Trim(aIn.lines[i])
        /\ f.matched_rules = [k \in DOMAIN contrib |-> contrib[k].name]
        /\ f.tags = TagUnion(contrib)

NoFinding(out, i) == \A f \in BagToSet(out) : f.line # i

OnlyScannedLines(out) == \A f \in BagToSet(out) : f.line \in DOMAIN aIn.lines

\* C1 as stated: in scan_file and in scan_git_history alike there is at most
\* one Finding per line key; a line matched by two or more rules yields exactly
\* one Finding (names in rule-set order, tags the union); a line matched by no
\* rule yields none.
C1_OneFindingPerMatchedLine ==
    \A out \in {aFile, aBlob} : out # None =>
        /\ OnlyScannedLines(out[1])
        /\ \A i \in DOMAIN aIn.lines :
              CASE Len(MatchingRules(i)) = 0 -> NoFinding(out[1], i)
                [] Len(MatchingRules(i)) = 1 ->
                      NoFinding(out[1], i) \/ MergedFinding(out[1], i, MatchingRules(i))
                [] OTHER -> MergedFinding(out[1], i, MatchingRules(i))

\* C1 (amended): as C1, where in scan_git_history the contributing rules of a
\* line are its matching rules when the line's entropy is at least the
\* threshold and none otherwise; a line with no contributing rule (matched by
\* no rule or, in a blob, below the threshold) yields no Finding.
C1_OneFindingPerContributingLine ==
    /\ aFile # None =>
          /\ OnlyScannedLines(aFile[1])
          /\ \A i \in DOMAIN aIn.lines :
                IF MatchingRules(i) = <<>> THEN NoFinding(aFile[1], i)
                ELSE MergedFinding(aFile[1], i, MatchingRules(i))
    /\ aBlob # None =>
          /\ OnlyScannedLines(aBlob[1])
          /\ \A i \in DOMAIN aIn.lines :
                IF MatchingRules(i) = <<>> \/ ~LineEntropyOk(i) THEN NoFinding(aBlob[1], i)
                ELSE MergedFinding(aBlob[1], i, MatchingRules(i))

\* Both scanners ran on a text with a line matched by two rules with different
\* tags, and both merged them into that line's Finding.
C1_Witness ==
    /\ aFile # None /\ aBlob # None
    /\ \E i \in DOMAIN aIn.lines :
          /\ Len(MatchingRules(i)) >= 2
          /\ MatchingRules(i)[1].tags # MatchingRules(i)[2].tags
          /\ LineEntropyOk(i)
          /\ \E f \in BagToSet(aFile[1]) : f.line = i /\ Len(f.matched_rules) >= 2
          /\ \E f \in BagToSet(aBlob[1]) : f.line = i /\ Len(f.matched_rules) >= 2

\* 1 - PROD (1 - c_i), multiplied from the last confidence to the first.
RECURSIVE ComplementProduct(_)
ComplementProduct(cs) ==
    IF cs = <<>> THEN RatInt(1)
    ELSE RatMul(RatSub(RatInt(1), cs[Len(cs)]), ComplementProduct(SubSeq(cs, 1, Len(cs) - 1)))

ConfidencesOf(rules) == [k \in DOMAIN rules |-> rules[k].confidence]

ConfidenceFormula(f, cs) ==
    /\ f.confidence = RatSub(RatInt(1), ComplementProduct(cs))
    /\ Len(cs) = 1 => f.confidence = cs[1]
    /\ \A p \in Permutations(DOMAIN cs) :
          CombinedConfidence([k \in DOMAIN cs |-> cs[p[k]]]) = f.confidence

\* C2: a Finding's confidence is 1 - PROD (1 - c_i) over the confidences of its
\* contributing rules, is c_1 when there is one, and is the same for every
\* order of the c_i, in scan_file and in scan_git_history.
C2_CombinedConfidence ==
    \A out \in {aFile, aBlob} : out # None =>
        \A f \in BagToSet(out[1]) :
            /\ f.line \in DOMAIN aIn.lines
            /\ MatchingRules(f.line) # <<>>
            /\ ConfidenceFormula(f, ConfidencesOf(MatchingRules(f.line)))

\* C6: in scan_git_history a matching line whose own entropy is below the
\* threshold has no Finding in its blob, and a matching line of the same blob
\* whose entropy reaches the threshold has its Finding all the same.
C6_EntropyPerLineBeforeAggregation ==
    aBlob # None =>
        \A i \in DOMAIN aIn.lines : MatchingRules(i) # <<>> =>
            IF LineEntropyOk(i)
            THEN \E f \in BagToSet(aBlob[1]) :
                    /\ f.line = i
                    /\ f.matched_rules = [k \in DOMAIN MatchingRules(i) |-> MatchingRules(i)[k].name]
            ELSE NoFinding(aBlob[1], i)

\* A blob with two lines matching the same rule, one below and one at or above
\* the threshold: only the second has a Finding.
C6_Witness ==
    /\ aBlob # None
    /\ \E i, j \in DOMAIN aIn.lines : \E r \in DOMAIN aIn.patterns :
          /\ is_match(aIn.patterns[r].pattern, aIn.lines[i])
          /\ is_match(aIn.patterns[r].pattern, aIn.lines[j])
          /\ ~LineEntropyOk(i)
          /\ LineEntropyOk(j)
          /\ NoFinding(aBlob[1], i)
          /\ \E f \in BagToSet(aBlob[1]) : f.line = j

(***************************************************************************)
(* Rule texts: every sequence of at most MaxRuleLines lines of this pool.  *)
(***************************************************************************)
RuleLinePool ==
    { <<"a", ":", ":", "x">>,
      <<"b", ":", ":", "y", ":", ":", "t", ":", ":", "0", ".", "7", "5">>,
      <<" ", "b", " ", ":", ":", " ", "x", ".", ":", ":", "t", " ", ",", " ", "u", ":", ":", "1", " ">>,
      <<"a", ":", ":", "(">>,
      <<"#", "a", ":", ":", "x">>,
      <<" ", " ">>,
      <<"a", "b">>,
      <<"a", ":", ":", "x", ":", ":", "t", ":", ":", "2">>,
      <<"b", ":", ":", "x", ":", ":", "u", ":", ":", "-", "0", ".", "5">>,
      <<"a", ":", ":", "y", ":", ":", "t", ":", ":", "z">>,
      <<"a", ":", ":", ":">>,
      <<"b", ":", ":", "y", ":", ":", "t", ",", ",", "u", ":", ":", "0", ".", "2", "5", ":", ":", "x">> }

RuleTexts == UNION {[1..n -> RuleLinePool] : n \in 0..MaxRuleLines}

(***************************************************************************)
(* parse_rules, one loop iteration per step.  rpos = 0: not called yet;    *)
(* rpos > Len(rtext): the loop is over and v is returned.                  *)
(***************************************************************************)
RulesDone == rpos > Len(rtext)

InitRules ==
    /\ rtext \in RuleTexts
    /\ rpos = 1
    /\ v = <<>>
    /\ AggIdle
    /\ MainIdle

RuleLine == rtext[rpos]

\* rules.rs:23  if l.is_empty() || l.starts_with('#') { continue }
SkipLine ==
    /\ rpos \in 1..Len(rtext)
    /\ IsBlankOrComment(RuleLine)
    /\ rpos' = rpos + 1
    /\ UNCHANGED <<rtext, v, aggVars, mainVars>>

\* rules.rs:26  parts.len() < 2: nothing is pushed
ShortLine ==
    /\ rpos \in 1..Len(rtext)
    /\ ~IsBlankOrComment(RuleLine)
    /\ Len(RuleParts(RuleLine)) < 2
    /\ rpos' = rpos + 1
    /\ UNCHANGED <<rtext, v, aggVars, mainVars>>

\* faulty variant: an invalid regex fails the whole load
BadRegexAborts ==
    /\ rpos \in 1..Len(rtext)
    /\ ~IsBlankOrComment(RuleLine)
    /\ Len(RuleParts(RuleLine)) >= 2
    /\ ~RegexCompiles(Trim(RuleParts(RuleLine)[2]))
    /\ v' = <<>>
    /\ rpos' = Len(rtext) + 1
    /\ UNCHANGED <<rtext, aggVars, mainVars>>

\* rules.rs:33  Regex::new(pat) is Err: nothing is pushed
BadRegexLine ==
    /\ rpos \in 1..Len(rtext)
    /\ ~IsBlankOrComment(RuleLine)
    /\ Len(RuleParts(RuleLine)) >= 2
    /\ ~RegexCompiles(Trim(RuleParts(RuleLine)[2]))
    /\ rpos' = rpos + 1
    /\ UNCHANGED <<rtext, v, aggVars, mainVars>>

\* rules.rs:34  v.push(Rule { .. })
PushRule ==
    /\ rpos \in 1..Len(rtext)
    /\ ~IsBlankOrComment(RuleLine)
    /\ Len(RuleParts(RuleLine)) >= 2
    /\ RegexCompiles(Trim(RuleParts(RuleLine)[2]))
    /\ v' = Append(v, RuleOf(RuleParts(RuleLine)))
    /\ rpos' = rpos + 1
    /\ UNCHANGED <<rtext, aggVars, mainVars>>

NextRules == SkipLine \/ ShortLine \/ BadRegexLine \/ PushRule

SpecRules == InitRules /\ [][NextRules]_vars

\* The loop and the recursive operator agree on what parse_rules returns.
RulesLoopIsParseRules == RulesDone => v = parse_rules(rtext)

(***************************************************************************)
(* Claims about parse_rules, stated over SpecRules.                        *)
(***************************************************************************)
Delim == <<":", ":">>

NonBlank(line) == \E i \in DOMAIN line : line[i] # " "

NonComment(line) ==
    \A i \in DOMAIN line : (\A j \in 1..(i - 1) : line[j] = " ") => line[i] # "#"

\* The text between the start of the trimmed line and its first "::", and
\* between its first "::" and the next one (or the end of the line).
FirstField(line) ==
    LET l == Trim(line)
        n == CHOOSE k \in 0..Len(l) :
                /\ StartsWith(SubSeq(l, k + 1, Len(l)), Delim)
                /\ ~Contains(SubSeq(l, 1, k + 1), Delim)
    IN  SubSeq(l, 1, n)

SecondField(line) ==
    LET l    == Trim(line)
        rest == SubSeq(l, Len(FirstField(line)) + 3, Len(l))
    IN  IF Contains(rest, Delim)
        THEN SubSeq(rest, 1, (CHOOSE k \in 0..Len(rest) :
                                /\ StartsWith(SubSeq(rest, k + 1, Len(rest)), Delim)
                                /\ ~Contains(SubSeq(rest, 1, k + 1), Delim)))
        ELSE rest

WellFormedRuleLine(line) ==
    /\ NonBlank(line)
    /\ NonComment(line)
    /\ Contains(line, Delim)
    /\ RegexCompiles(Trim(SecondField(line)))

WellFormedUpTo(n) == {i \in 1..n : WellFormedRuleLine(rtext[i])}

NthOf(S, k) == CHOOSE i \in S : Cardinality({j \in S : j <= i}) = k

\* C7: after any number of lines, v holds exactly one Rule for each well-formed
\* line read so far (non-blank, non-comment, two or more "::" fields, pattern
\* compiles), in the order of the lines; every other line, a line with an
\* invalid regex included, adds nothing and removes nothing.
C7_BestEffortPerLine ==
    rpos >= 1 =>
        LET good == WellFormedUpTo(rpos - 1)
        IN  /\ Len(v) = Cardinality(good)
            /\ \A k \in DOMAIN v :
                  /\ v[k].name = Trim(FirstField(rtext[NthOf(good, k)]))
                  /\ v[k].pattern = Trim(SecondField(rtext[NthOf(good, k)]))

\* The whole text is read; a line with an invalid regex stands between two
\* well-formed lines, and both of them are loaded.
C7_Witness ==
    /\ RulesDone
    /\ Len(rtext) = 3
    /\ WellFormedRuleLine(rtext[1])
    /\ NonBlank(rtext[2]) /\ NonComment(rtext[2]) /\ Contains(rtext[2], Delim)
    /\ ~RegexCompiles(Trim(SecondField(rtext[2])))
    /\ WellFormedRuleLine(rtext[3])
    /\ Len(v) = 2

\* C10: every Rule parse_rules returns has a confidence in [0.0, 1.0].
C10_ConfidenceInUnitInterval ==
    \A k \in DOMAIN v :
        RatLe(RatInt(0), v[k].confidence) /\ RatLe(v[k].confidence, RatInt(1))

(***************************************************************************)
(* main.rs: the scan.  A path is a sequence of components, each a text;    *)
(* its text joins them with "/".                                           *)
(***************************************************************************)
PathText(p) == Join(p, <<"/">>)

Parent(p) == SubSeq(p, 1, Len(p) - 1)

\* Path::starts_with: a prefix by whole components
PathStartsWith(p, base) == Len(base) <= Len(p) /\ SubSeq(p, 1, Len(base)) = base

IgnoreName == <<".", "l", "s", "s", "i", "g", "n", "o", "r", "e">>
GitName == <<".", "g", "i", "t">>

\* faulty variant: an entry must equal the path
should_ignore_exact(text, igs) == \E ig \in igs : text = ig

\* for ig in ignores.iter() { if path.contains(ig) { return true } } false
should_ignore(text, igs) == \E ig \in igs : Contains(text, ig)

\* for line in s.lines() { let t = line.trim(); if !t.is_empty() { set.insert(t) } }
IgnoreLines(lines) == {Trim(lines[i]) : i \in DOMAIN lines} \ {<<>>}

\* fs::read_to_string(p): Err for a missing, unreadable or non-UTF-8 file
ReadToString(fs, p) ==
    IF p \in DOMAIN fs /\ fs[p].readable THEN Some(fs[p].lines) ELSE None

\* the entries of dir/.lssignore, nothing when it is missing or unreadable
IgnoreFileAt(fs, dir) ==
    LET txt == ReadToString(fs, Append(dir, IgnoreName))
    IN  IF txt = None THEN {} ELSE IgnoreLines(txt[1])

\* main.rs:366-378: the ignore files from the file's directory up to the root
RECURSIVE IgnoresUpFrom(_, _, _)
IgnoresUpFrom(fs, root, dir) ==
    IF ~PathStartsWith(dir, root) THEN {}
    ELSE IgnoreFileAt(fs, dir) \cup
         (IF Len(dir) > 0 THEN IgnoresUpFrom(fs, root, Parent(dir)) ELSE {})

repo_ignores(fs, root, p) ==
    IF Len(p) > 0 THEN IgnoresUpFrom(fs, root, Parent(p)) ELSE {}

combined_ignores(p) ==
    ignores \cup ignore_fileset \cup repo_ignores(world.files, world.path, p)

\* scan_file: nothing for a file that cannot be read as text
scan_file(p, rules) ==
    LET content == ReadToString(world.files, p)
    IN  IF content = None THEN EmptyBag
        ELSE ScanText(PathText(p), content[1], rules)

BagFilter(b, Keep(_)) ==
    LET kept == {f \in DOMAIN b : Keep(f)} IN [f \in kept |-> b[f]]

\* main.rs:383-388, the first retain
KeepByConfidenceAndTags(f) ==
    LET min == IF world.min_confidence = None THEN RatInt(0) ELSE world.min_confidence[1]
    IN  IF RatLt(f.confidence, min) THEN FALSE
        ELSE IF world.exclude_tags # None /\ f.tags \cap world.exclude_tags[1] # {} THEN FALSE
        ELSE IF world.include_tags # None THEN f.tags \cap world.include_tags[1] # {}
        ELSE TRUE

\* main.rs:389, the second retain
KeepByEntropy(f) == shannon_entropy_ge(f.snippet, world.entropy_threshold)

FilterFindings(r) == BagFilter(BagFilter(r, KeepByConfidenceAndTags), KeepByEntropy)

\* faulty variant: the second retain keeps every Finding
RetainAll(r, threshold) == r

\* main.rs:389 on its own, for an entropy threshold given as a value:
\* r.retain(|f| shannon_entropy(&f.snippet) >= entropy_threshold)
RetainByEntropy(r, threshold) ==
    BagFilter(r, LAMBDA f : shannon_entropy_ge(f.snippet, threshold))

(***************************************************************************)
(* The parallel file phase: entries.par_iter().flat_map(closure).collect() *)
(* One task per entry; a task's steps interleave freely with the others'.  *)
(***************************************************************************)
\* a task is over once its closure has returned: early as ignored, or with r
TaskOver(i) == task[i].pc \in {"ignored", "done"}

\* if should_ignore(&s, &combined_ignores) { return Vec::new() }
TaskIgnored(i) ==
    /\ git.pc = "files"
    /\ task[i].pc = "todo"
    /\ should_ignore(PathText(entries[i]), combined_ignores(entries[i]))
    /\ task' = [task EXCEPT ![i] = [pc |-> "ignored", r |-> EmptyBag]]
    /\ UNCHANGED <<world, patterns, ignores, ignore_fileset, entries,
                   results_files, git, results_git, results, rulesVars, aggVars>>

\* let mut r = scan_file(&p, &patterns);
TaskScan(i) ==
    /\ git.pc = "files"
    /\ task[i].pc = "todo"
    /\ ~should_ignore(PathText(entries[i]), combined_ignores(entries[i]))
    /\ task' = [task EXCEPT ![i] = [pc |-> "scanned", r |-> scan_file(entries[i], patterns)]]
    /\ UNCHANGED <<world, patterns, ignores, ignore_fileset, entries,
                   results_files, git, results_git, results, rulesVars, aggVars>>

\* r.retain(..); r.retain(..); r
TaskFilter(i) ==
    /\ git.pc = "files"
    /\ task[i].pc = "scanned"
    /\ task' = [task EXCEPT ![i] = [pc |-> "done", r |-> FilterFindings(task[i].r)]]
    /\ UNCHANGED <<world, patterns, ignores, ignore_fileset, entries,
                   results_files, git, results_git, results, rulesVars, aggVars>>

RECURSIVE BagSum(_, _)
BagSum(t, n) == IF n = 0 THEN EmptyBag ELSE BagSum(t, n - 1) (+) t[n].r

\* fs::read_dir(&path): the directories directly under the root
SubDirs(fs, root) ==
    {SubSeq(p, 1, Len(root) + 1) : p \in {q \in DOMAIN fs : Len(q) > Len(root) + 1 /\ PathStartsWith(q, root)}}

\* faulty variant: the join does not wait for every task
CollectEarly ==
    /\ git.pc = "files"
    /\ \E i \in DOMAIN task : TaskOver(i)
    /\ results_files' = Some(BagSum(task, Len(task)))
    /\ git' = [git EXCEPT !.pc = "readdir",
                          !.queue = IF world.read_dir_ok THEN SubDirs(world.files, world.path) ELSE {}]
    /\ UNCHANGED <<world, patterns, ignores, ignore_fileset, entries, task,
                   results_git, results, rulesVars, aggVars>>

\* .collect() returns once every task is over; then fs::read_dir(&path)
Collect ==
    /\ git.pc = "files"
    /\ \A i \in DOMAIN task : TaskOver(i)
    /\ results_files' = Some(BagSum(task, Len(task)))
    /\ git' = [git EXCEPT !.pc = "readdir",
                          !.queue = IF world.read_dir_ok THEN SubDirs(world.files, world.path) ELSE {}]
    /\ UNCHANGED <<world, patterns, ignores, ignore_fileset, entries, task,
                   results_git, results, rulesVars, aggVars>>

(***************************************************************************)
(* The git phase: for each directory entry with a .git, scan_git_history.  *)
(* A repository is [discover, revwalk, push_head: whether each call is Ok, *)
(* head, parents: commit -> its parents, commits: commit -> [found, tree   *)
(* (None when commit.tree() is Err)], trees: tree id -> its entries, each  *)
(* [name (None when not UTF-8), kind, id, ok (whether a tree entry         *)
(* resolves to a tree)], blobs: id -> [found, utf8, lines]].               *)
(***************************************************************************)
HasGit(fs, d) == \E q \in DOMAIN fs : PathStartsWith(q, Append(d, GitName))

RECURSIVE ReachableFrom(_, _, _)
ReachableFrom(parents, frontier, seen) ==
    IF frontier = {} THEN seen
    ELSE LET next == (UNION {parents[c] : c \in frontier}) \ (seen \cup frontier)
         IN  ReachableFrom(parents, next, seen \cup frontier)

\* faulty variant: the walk yields HEAD only
RevwalkHeadOnly(repo) == {repo.head}

\* revwalk.push_head(): the walk yields every commit reachable from HEAD once
RevwalkCommits(repo) == ReachableFrom(repo.parents, {repo.head}, {})

\* format!("git:{}:{}", commit.id(), name)
GitPath(c, name) == <<"g", "i", "t", ":">> \o c \o <<":">> \o name

\* main.rs:216-264: the body of `for entry in tree.iter()` for one entry
VisitEntry(repo, c, e, acc) ==
    IF e.name = None THEN acc
    ELSE IF e.kind = "blob" THEN
        IF should_ignore(e.name[1], ignores) THEN acc
        ELSE IF ~(repo.blobs[e.id].found /\ repo.blobs[e.id].utf8) THEN acc
        ELSE [acc EXCEPT !.findings = @ (+) ScanBlob(GitPath(c, e.name[1]),
                                                     repo.blobs[e.id].lines,
                                                     patterns,
                                                     world.entropy_threshold)]
    ELSE IF e.kind = "tree" THEN
        IF e.ok THEN [acc EXCEPT !.stack = Append(@, e.id)] ELSE acc
    ELSE acc

RECURSIVE VisitEntries(_, _, _, _)
VisitEntries(repo, c, es, acc) ==
    IF es = <<>> THEN acc
    ELSE VisitEntries(repo, c, Tail(es), VisitEntry(repo, c, Head(es), acc))

GitUnchanged ==
    UNCHANGED <<world, patterns, ignores, ignore_fileset, entries, task,
                results_files, rulesVars, aggVars>>

RepoOpens(repo) == repo.discover /\ repo.revwalk /\ repo.push_head

\* main.rs:398: no .git under this directory entry
DirWithoutGit ==
    /\ git.pc = "readdir"
    /\ \E d \in git.queue :
          /\ ~HasGit(world.files, d)
          /\ git' = [git EXCEPT !.queue = @ \ {d}]
    /\ UNCHANGED <<results_git, results>>
    /\ GitUnchanged

\* main.rs:190-200: discover, revwalk or push_head is Err: return findings (empty)
RepoOpenFails ==
    /\ git.pc = "readdir"
    /\ \E d \in git.queue :
          /\ HasGit(world.files, d)
          /\ ~RepoOpens(world.repos[d])
          /\ git' = [git EXCEPT !.queue = @ \ {d}]
    /\ results_git' = results_git (+) EmptyBag
    /\ UNCHANGED results
    /\ GitUnchanged

\* main.rs:190-202: the repository opens and the walk is set up
RepoOpen ==
    /\ git.pc = "readdir"
    /\ \E d \in git.queue :
          /\ HasGit(world.files, d)
          /\ RepoOpens(world.repos[d])
          /\ git' = [git EXCEPT !.pc = "walk", !.queue = @ \ {d}, !.repo = d,
                                !.walk = RevwalkCommits(world.repos[d]),
                                !.stack = <<>>, !.findings = EmptyBag]
    /\ UNCHANGED <<results_git, results>>
    /\ GitUnchanged

CommitOk(repo, c) == repo.commits[c].found /\ repo.commits[c].tree # None

\* faulty variant: a commit that cannot be loaded ends the walk
CommitFailsEndsWalk ==
    /\ git.pc = "walk"
    /\ \E c \in git.walk :
          /\ ~CommitOk(world.repos[git.repo], c)
          /\ git' = [git EXCEPT !.walk = {}]
    /\ UNCHANGED <<results_git, results>>
    /\ GitUnchanged

\* main.rs:203-211: find_commit or commit.tree() is Err: continue
CommitFails ==
    /\ git.pc = "walk"
    /\ \E c \in git.walk :
          /\ ~CommitOk(world.repos[git.repo], c)
          /\ git' = [git EXCEPT !.walk = @ \ {c}]
    /\ UNCHANGED <<results_git, results>>
    /\ GitUnchanged

\* main.rs:202-213: the walk yields a commit; let mut stack = vec![tree]
CommitStart ==
    /\ git.pc = "walk"
    /\ \E c \in git.walk :
          /\ CommitOk(world.repos[git.repo], c)
          /\ git' = [git EXCEPT !.pc = "tree", !.walk = @ \ {c}, !.commit = c,
                                !.stack = <<world.repos[git.repo].commits[c].tree[1]>>]
    /\ UNCHANGED <<results_git, results>>
    /\ GitUnchanged

\* main.rs:214-266: while let Some(tree) = stack.pop() { for entry in tree.iter() {..} }
PopTree ==
    /\ git.pc = "tree"
    /\ git.stack # <<>>
    /\ LET repo == world.repos[git.repo]
           top  == git.stack[Len(git.stack)]
       IN  \E acc \in {VisitEntries(repo, git.commit, repo.trees[top],
                                     [stack |-> SubSeq(git.stack, 1, Len(git.stack) - 1),
                                      findings |-> git.findings])} :
               git' = [git EXCEPT !.stack = acc.stack, !.findings = acc.findings]
    /\ UNCHANGED <<results_git, results>>
    /\ GitUnchanged

\* main.rs:214: stack.pop() is None: on to the next commit
CommitDone ==
    /\ git.pc = "tree"
    /\ git.stack = <<>>
    /\ git' = [git EXCEPT !.pc = "walk"]
    /\ UNCHANGED <<results_git, results>>
    /\ GitUnchanged

\* main.rs:270, 400: the walk is over; results_git.append(&mut g)
RepoDone ==
    /\ git.pc = "walk"
    /\ git.walk = {}
    /\ results_git' = results_git (+) git.findings
    /\ git' = [git EXCEPT !.pc = "readdir", !.findings = EmptyBag]
    /\ UNCHANGED results
    /\ GitUnchanged

\* main.rs:405-406: let mut results = results_files; results.extend(results_git)
Finish ==
    /\ git.pc = "readdir"
    /\ git.queue = {}
    /\ results' = Some(results_files[1] (+) results_git)
    /\ git' = [git EXCEPT !.pc = "done"]
    /\ UNCHANGED results_git
    /\ GitUnchanged

(***************************************************************************)
(* The runs of the model.  The root r holds the file r/x and the directory *)
(* r/a with the file r/a/y and a repository (r/a/.git); ignore files may   *)
(* stand in r, in r/a and in the sibling directory r/c.                    *)
(***************************************************************************)
Root == << <<"r">> >>
DirA == Append(Root, <<"a">>)
DirC == Append(Root, <<"c">>)
FileX == Append(Root, <<"x">>)
FileY == Append(DirA, <<"y">>)
GitLink == Append(DirA, GitName)

TextFile(lines) == [readable |-> TRUE, lines |-> lines]
Unreadable(lines) == [readable |-> FALSE, lines |-> lines]

FsOf(S) == [p \in {x[1] : x \in S} |-> (CHOOSE x \in S : x[1] = p)[2]]

\* "xy" matches both default rules; "x" matches the first and has entropy 0
SecretLines == << <<"x", "y">>, <<"x">> >>
OtherLines == << <<" ", "x", "y", "z", "w">> >>

\* stands for the rule corpus rules/default_rules.txt
DefaultRulesText ==
    << <<"a", ":", ":", "x", ":", ":", "t", ":", ":", "0", ".", "5">>,
       <<"b", ":", ":", "y", ":", ":", "u", ":", ":", "0", ".", "5">> >>

ExtraRulesText ==
    << <<"c", ":", ":", "x", ":", ":", "t", ":", ":", "0", ".", "7", "5">>,
       <<"d", ":", ":", "(">> >>

Blob(lines) == [found |-> TRUE, utf8 |-> TRUE, lines |-> lines]
BlobEntry(name, id) == [name |-> Some(name), kind |-> "blob", id |-> id, ok |-> TRUE]
TreeEntry(name, id) == [name |-> Some(name), kind |-> "tree", id |-> id, ok |-> TRUE]
Commit(tree) == [found |-> TRUE, tree |-> Some(tree)]

\* HEAD = commit 2, whose parent is commit 1; the blob "s" is in both, the
\* later commit adds the directory "d" with the blob "y" and a submodule "m".
BaseRepo ==
    [discover |-> TRUE, revwalk |-> TRUE, push_head |-> TRUE,
     head     |-> <<"2">>,
     parents  |-> (<<"1">> :> {} @@ <<"2">> :> {<<"1">>}),
     commits  |-> (<<"1">> :> Commit("T1") @@ <<"2">> :> Commit("T2")),
     trees    |-> ("T1" :> <<BlobEntry(<<"s">>, "B1")>>
                   @@ "T2" :> <<TreeEntry(<<"d">>, "T3"), BlobEntry(<<"s">>, "B1"),
                                [name |-> Some(<<"m">>), kind |-> "commit", id |-> "M", ok |-> TRUE]>>
                   @@ "T3" :> <<BlobEntry(<<"y">>, "B2")>>),
     blobs    |-> ("B1" :> Blob(SecretLines) @@ "B2" :> Blob(OtherLines))]

BaseFiles ==
    { <<FileX, TextFile(SecretLines)>>,
      <<FileY, TextFile(OtherLines)>>,
      <<GitLink, TextFile(<< <<"g", "i", "t", "d", "i", "r">> >>)>> }

BaseWorld ==
    [path              |-> Root,
     files             |-> FsOf(BaseFiles),
     cfg_ignore        |-> {},
     cli_ignore        |-> None,
     rules_file        |-> None,
     min_confidence    |-> None,
     include_tags      |-> None,
     exclude_tags      |-> None,
     entropy_threshold |-> 1,
     read_dir_ok       |-> TRUE,
     repos             |-> (DirA :> BaseRepo)]

\* Runs that differ in their ignore files and ignore options.
IgnoreWorlds ==
    { [BaseWorld EXCEPT
          !.files = FsOf(BaseFiles \cup ig),
          !.cfg_ignore = cfg,
          !.cli_ignore = cli]
      : ig \in SUBSET { <<Append(Root, IgnoreName), TextFile(<< <<" ", "r", "/", "x", " ">>, <<>> >>)>>,
                        <<Append(DirA, IgnoreName), TextFile(<< <<"y">> >>)>>,
                        <<Append(DirC, IgnoreName), TextFile(<< <<"a", "/">> >>)>> },
        cfg \in { {}, {<<"s">>} },
        cli \in { None, Some(<< <<"g", "i", "t">> >>) } }

\* Runs that differ in their filters and rule files.
FilterWorlds ==
    { [BaseWorld EXCEPT
          !.min_confidence = m,
          !.include_tags = inc,
          !.exclude_tags = exc,
          !.entropy_threshold = t,
          !.rules_file = rf]
      : m \in { None, Some(Rat(1, 2)), Some(F64(Rat(9, 10))) },
        inc \in { None, Some({<<"t">>}) },
        exc \in { None, Some({<<"u">>}) },
        t \in Thresholds,
        rf \in { None, Some(ExtraRulesText) } }

\* Runs in which files, blobs, trees, commits or the repository fail.
FailingRepos ==
    { BaseRepo,
      [BaseRepo EXCEPT !.discover = FALSE],
      [BaseRepo EXCEPT !.revwalk = FALSE],
      [BaseRepo EXCEPT !.push_head = FALSE],
      [BaseRepo EXCEPT !.commits[<<"2">>].found = FALSE],
      [BaseRepo EXCEPT !.commits[<<"1">>].tree = None],
      [BaseRepo EXCEPT !.blobs["B1"].found = FALSE],
      [BaseRepo EXCEPT !.blobs["B2"].utf8 = FALSE],
      [BaseRepo EXCEPT !.trees["T2"][1].ok = FALSE],
      [BaseRepo EXCEPT !.trees["T2"][2].name = None] }

FailWorlds ==
    { [BaseWorld EXCEPT
          !.files = FsOf({ <<FileX, fx>>, <<FileY, TextFile(OtherLines)>>,
                           <<GitLink, TextFile(<< <<"g", "i", "t", "d", "i", "r">> >>)>> } \cup ig),
          !.entropy_threshold = 0,
          !.repos[DirA] = repo]
      : fx \in {TextFile(SecretLines), Unreadable(SecretLines)},
        ig \in { {},
                 {<<Append(Root, IgnoreName), TextFile(<< <<"x">> >>)>>},
                 {<<Append(Root, IgnoreName), Unreadable(<< <<"x">> >>)>>} },
        repo \in FailingRepos }
    \cup { [BaseWorld EXCEPT !.read_dir_ok = FALSE] }

\* Histories: k commits in a line, each with the same tree, whose one blob
\* holds the one line "xy".
CommitId(i) == <<Digits[i + 1]>>

ChainRepo(k) ==
    [discover |-> TRUE, revwalk |-> TRUE, push_head |-> TRUE,
     head     |-> CommitId(k),
     parents  |-> [c \in {CommitId(i) : i \in 1..k} |->
                      {CommitId(i - 1) : i \in {j \in 2..k : CommitId(j) = c}}],
     commits  |-> [c \in {CommitId(i) : i \in 1..k} |-> Commit("T1")],
     trees    |-> ("T1" :> <<BlobEntry(<<"s">>, "B1")>>),
     blobs    |-> ("B1" :> Blob(<< <<"x", "y">> >>))]

\* Commit 4 merges 2 and 3, both children of 1; commit 5, a child of 4, is on
\* no path from HEAD = 4.  The tree T3 is an entry of T2 twice, and of T4.
DiamondRepo ==
    [discover |-> TRUE, revwalk |-> TRUE, push_head |-> TRUE,
     head     |-> <<"4">>,
     parents  |-> (<<"1">> :> {} @@ <<"2">> :> {<<"1">>} @@ <<"3">> :> {<<"1">>}
                   @@ <<"4">> :> {<<"2">>, <<"3">>} @@ <<"5">> :> {<<"4">>}),
     commits  |-> (<<"1">> :> Commit("T1") @@ <<"2">> :> Commit("T2") @@ <<"3">> :> Commit("T1")
                   @@ <<"4">> :> Commit("T4") @@ <<"5">> :> Commit("T2")),
     trees    |-> ("T1" :> <<BlobEntry(<<"s">>, "B1")>>
                   @@ "T2" :> <<TreeEntry(<<"d">>, "T3"), BlobEntry(<<"s">>, "B1"), TreeEntry(<<"e">>, "T3")>>
                   @@ "T3" :> <<BlobEntry(<<"y">>, "B2")>>
                   @@ "T4" :> <<TreeEntry(<<"d">>, "T5")>>
                   @@ "T5" :> <<TreeEntry(<<"e">>, "T3"), BlobEntry(<<"s">>, "B1")>>),
     blobs    |-> ("B1" :> Blob(SecretLines) @@ "B2" :> Blob(OtherLines))]

GitWorlds ==
    { [BaseWorld EXCEPT
          !.files = FsOf({ <<GitLink, TextFile(<< <<"g", "i", "t", "d", "i", "r">> >>)>>,
                           <<Append(DirC, <<"f">>), TextFile(SecretLines)>> }),
          !.cfg_ignore = cfg,
          !.entropy_threshold = t,
          !.repos[DirA] = repo]
      : cfg \in { {}, {<<"y">>}, {<<"f">>} },
        t \in Thresholds,
        repo \in {ChainRepo(k) : k \in 1..MaxCommits}
                 \cup {DiamondRepo,
                       [DiamondRepo EXCEPT !.commits[<<"2">>].found = FALSE],
                       [DiamondRepo EXCEPT !.discover = FALSE]} }

Worlds == IgnoreWorlds \cup FilterWorlds \cup FailWorlds \cup GitWorlds

RECURSIVE SetToSeq(_)
SetToSeq(S) ==
    IF S = {} THEN <<>>
    ELSE LET x == CHOOSE y \in S : TRUE IN <<x>> \o SetToSeq(S \ {x})

\* rules::load_rules_from_file: nothing when the file cannot be read
load_rules_from_file(rf) == IF rf = None THEN <<>> ELSE parse_rules(rf[1])

GitStart ==
    [pc |-> "files", queue |-> {}, repo |-> <<>>, walk |-> {}, commit |-> <<>>,
     stack |-> <<>>, findings |-> EmptyBag]

\* main.rs:317-356: the state when the parallel phase starts
MainStart(w) ==
    /\ world = w
    /\ patterns = parse_rules(DefaultRulesText) \o load_rules_from_file(w.rules_file)
    /\ ignores = w.cfg_ignore \cup (IF w.cli_ignore = None THEN {} ELSE IgnoreLines(w.cli_ignore[1]))
    /\ ignore_fileset = IgnoreFileAt(w.files, w.path)
    /\ entries = SetToSeq(DOMAIN w.files)
    /\ task = [i \in 1..Cardinality(DOMAIN w.files) |-> [pc |-> "todo", r |-> EmptyBag]]
    /\ results_files = None
    /\ git = GitStart
    /\ results_git = EmptyBag
    /\ results = None

Init ==
    /\ \E w \in Worlds : MainStart(w)
    /\ RulesIdle
    /\ AggIdle

Next ==
    \/ \E i \in DOMAIN task : TaskIgnored(i)
    \/ \E i \in DOMAIN task : TaskScan(i)
    \/ \E i \in DOMAIN task : TaskFilter(i)
    \/ Collect
    \/ DirWithoutGit
    \/ RepoOpenFails
    \/ RepoOpen
    \/ CommitFails
    \/ CommitStart
    \/ PopTree
    \/ CommitDone
    \/ RepoDone
    \/ Finish

Spec == Init /\ [][Next]_vars

\* The threads of the pool and the main thread keep running: a scan that can
\* take a step takes one.
FairSpec == Spec /\ WF_vars(Next)

(***************************************************************************)
(* Claims about the scan, stated over Spec.                                *)
(***************************************************************************)
Done == git.pc = "done"

\* (a) the entries of the config file and of the --ignore-file
OptionIgnoreEntries(w) ==
    w.cfg_ignore \cup
    (IF w.cli_ignore = None THEN {}
     ELSE {Trim(l) : l \in Range(w.cli_ignore[1])} \ {<<>>})

\* the entries of the ignore file in directory dir, if it has a readable one
IgnoreEntriesIn(w, dir) ==
    LET f == Append(dir, IgnoreName)
    IN  IF f \in DOMAIN w.files /\ w.files[f].readable
        THEN {Trim(l) : l \in Range(w.files[f].lines)} \ {<<>>}
        ELSE {}

\* the directories from F's parent up to and including the root
DirsUpToRoot(w, F) == {SubSeq(F, 1, k) : k \in Len(w.path)..(Len(F) - 1)}

EffectiveIgnoreSet(w, F) ==
    OptionIgnoreEntries(w) \cup IgnoreEntriesIn(w, w.path)
        \cup UNION {IgnoreEntriesIn(w, d) : d \in DirsUpToRoot(w, F)}

IsIgnored(w, F) == \E e \in EffectiveIgnoreSet(w, F) : Contains(PathText(F), e)

WithPath(b, text) == BagFilter(b, LAMBDA f : f.path = text)

\* C3: the File Scanner is applied to a regular file F under the root exactly
\* when F's path text contains no entry of (a) the config/CLI ignores, (b) the
\* root's ignore file, (c) the ignore files of the directories from F's parent
\* up to the root; an ignored F has no Finding in the output; an ignore file
\* of any other directory does not count.
C3_IgnoreResolution ==
    \A i \in DOMAIN task :
        /\ task[i].pc \in {"scanned", "done"} => ~IsIgnored(world, entries[i])
        /\ task[i].pc = "ignored" => IsIgnored(world, entries[i])
        /\ (results # None /\ IsIgnored(world, entries[i]))
              => WithPath(results[1], PathText(entries[i])) = EmptyBag

\* The scan is over; r/x was ignored through the root's ignore file and a file
\* under r/a through r/a's; another file, whose path contains an entry of the
\* ignore file of the sibling directory r/c, was scanned all the same.
C3_Witness ==
    /\ results # None
    /\ \E i, j, k \in DOMAIN task :
          /\ entries[i] = FileX /\ task[i].pc = "ignored"
          /\ OptionIgnoreEntries(world) = {}
          /\ entries[j] = FileY /\ task[j].pc = "ignored"
          /\ task[k].pc = "done"
          /\ \E e \in IgnoreEntriesIn(world, DirC) : Contains(PathText(entries[k]), e)

\* C4: with a minimum confidence configured, the output holds no Finding whose
\* combined confidence is below it.
C4_NoFindingBelowMinimum ==
    (results # None /\ world.min_confidence # None) =>
        \A f \in BagToSet(results[1]) : ~RatLt(f.confidence, world.min_confidence[1])


RECURSIVE SumOver(_, _)
SumOver(S, B) ==
    IF S = {} THEN EmptyBag
    ELSE LET x == CHOOSE y \in S : TRUE IN B[x] (+) SumOver(S \ {x}, B)

\* What a file that can be read contributes: nothing when an entry of igs is in
\* its path, else its aggregated Findings that pass the filters.
FileContribution(F, igs) ==
    IF ~world.files[F].readable THEN EmptyBag
    ELSE IF \E e \in igs : Contains(PathText(F), e) THEN EmptyBag
    ELSE FilterFindings(ScanText(PathText(F), world.files[F].lines, patterns))

\* What the blobs below tree t of commit c contribute: a blob that is found,
\* is text and is not ignored by name contributes its aggregated Findings; a
\* blob or subtree that fails contributes nothing.
RECURSIVE TreeContribution(_, _, _)
TreeContribution(repo, c, t) ==
    LET es == repo.trees[t]
        One(k) ==
            IF es[k].name = None THEN EmptyBag
            ELSE IF es[k].kind = "blob" THEN
                IF \/ \E ig \in OptionIgnoreEntries(world) : Contains(es[k].name[1], ig)
                   \/ ~repo.blobs[es[k].id].found
                   \/ ~repo.blobs[es[k].id].utf8
                THEN EmptyBag
                ELSE ScanBlob(GitPath(c, es[k].name[1]), repo.blobs[es[k].id].lines,
                              patterns, world.entropy_threshold)
            ELSE IF es[k].kind = "tree" /\ es[k].ok THEN TreeContribution(repo, c, es[k].id)
            ELSE EmptyBag
    IN  SumOver(DOMAIN es, [k \in DOMAIN es |-> One(k)])

\* the commits of which HEAD is a descendant, HEAD included
Ancestors(repo) ==
    LET C == DOMAIN repo.commits
        Chains == UNION {[1..n -> C] : n \in 1..Cardinality(C)}
    IN  {ch[Len(ch)] : ch \in {x \in Chains :
            /\ x[1] = repo.head
            /\ \A k \in 1..(Len(x) - 1) : x[k + 1] \in repo.parents[x[k]]}}

RepoContribution(d) ==
    LET repo == world.repos[d]
    IN  IF ~world.read_dir_ok \/ ~HasGit(world.files, d) \/ ~RepoOpens(repo) THEN EmptyBag
        ELSE SumOver({c \in Ancestors(repo) : CommitOk(repo, c)},
                     [c \in {x \in Ancestors(repo) : CommitOk(repo, x)} |->
                         TreeContribution(repo, c, repo.commits[c].tree[1])])

AllReadable(w) ==
    [w EXCEPT !.files = [p \in DOMAIN w.files |-> [w.files[p] EXCEPT !.readable = TRUE]]]

C9_NoSharedMutableState ==
    /\ [][ /\ \A i \in DOMAIN task : task'[i] # task[i] =>
                 /\ \A j \in DOMAIN task \ {i} : task'[j] = task[j]
                 /\ UNCHANGED <<results_files, git, results_git, results>>
           /\ UNCHANGED <<patterns, ignores, ignore_fileset, entries, world>>
           /\ (\E i \in DOMAIN task : ~TaskOver(i)) =>
                 UNCHANGED <<results_files, git, results_git, results>> ]_vars
    /\ [](results_files # None =>
            results_files[1] =
                SumOver(DOMAIN world.files,
                        [F \in DOMAIN world.files |->
                          FileContribution(F, EffectiveIgnoreSet(world, F))]))
    /\ [](git.pc # "files" => results_files # None /\ \A i \in DOMAIN task : TaskOver(i))

\* Two tasks are in flight at once, one scanned and not yet filtered while
\* another has not started, in a run in which both will contribute Findings.
C9_Witness ==
    /\ git.pc = "files"
    /\ \E i, j \in DOMAIN task :
          /\ task[i].pc = "scanned" /\ task[i].r # EmptyBag
          /\ task[j].pc = "todo" /\ entries[j] = FileX
          /\ ~IsIgnored(world, FileX) /\ world.files[FileX].readable

(***************************************************************************)
(* Claims about scan_git_history.                                          *)
(***************************************************************************)
TheRepo == world.repos[DirA]

BlobNamed(b, name) ==
    BagFilter(b, LAMBDA f : \E c \in DOMAIN TheRepo.commits : f.path = GitPath(c, name))

\* the history is one of the lines of commits, its blob is not ignored, and
\* the entropy of its line (1 bit) is enough
UnchangedSecret ==
    /\ \E k \in 1..MaxCommits : TheRepo = ChainRepo(k)
    /\ ~\E ig \in OptionIgnoreEntries(world) : Contains(<<"s">>, ig)
    /\ world.entropy_threshold <= 1

\* C5: the traversal of a repository ends, and ends with an empty stack; what
\* it returns is, for every commit reachable from HEAD and every blob entry
\* below that commit's root tree that is not ignored, the Findings of that blob
\* once, whatever other commit holds the same blob; a blob with one matching
\* line that is in each of k commits gives k Findings, one per commit id.
C5_EveryCommitEveryBlobOnce ==
    /\ <>Done
    /\ [](git.pc \in {"walk", "readdir", "done"} => git.stack = <<>>)
    /\ [](Done =>
            /\ git.walk = {}
            /\ results_git = SumOver(DOMAIN world.repos,
                                     [d \in DOMAIN world.repos |-> RepoContribution(d)])
            /\ UnchangedSecret =>
                  /\ BagCardinality(BlobNamed(results_git, <<"s">>)) = Cardinality(DOMAIN TheRepo.commits)
                  /\ \A c \in DOMAIN TheRepo.commits :
                        BagCardinality(WithPath(results_git, GitPath(c, <<"s">>))) = 1)

\* The walk of MaxCommits commits with the same blob is over and has one
\* Finding for each of them.
C5_Witness ==
    /\ Done
    /\ UnchangedSecret
    /\ TheRepo = ChainRepo(MaxCommits)
    /\ BagCardinality(results_git) = MaxCommits
    /\ \A i \in 1..MaxCommits : WithPath(results_git, GitPath(CommitId(i), <<"s">>)) # EmptyBag

(***************************************************************************)
(* The two paths of one text, stated over SpecAgg: the file path is        *)
(* scan_file followed by the entropy retain of main, with no tag or        *)
(* minimum-confidence filter; the git path is what scan_git_history pushes *)
(* for the text as a blob.                                                 *)
(***************************************************************************)
ResultsOf(b) ==
    { [line |-> f.line, snippet |-> f.snippet,
       matched_rules |-> f.matched_rules, confidence |-> f.confidence]
      : f \in BagToSet(b) }

FilePathResults == ResultsOf(RetainByEntropy(aFile[1], aIn.threshold))
GitPathResults == ResultsOf(aBlob[1])

SnippetEntropyOk(i) == shannon_entropy_ge(Trim(aIn.lines[i]), aIn.threshold)

AtLine(S, i) == {f \in S : f.line = i}

\* C11 as stated: for the same text, rule set and entropy threshold, the file
\* path and the git path give the same set of (line, snippet, matched_rules,
\* confidence) results.
C11_BothPathsSameResults ==
    (aFile # None /\ aBlob # None) => FilePathResults = GitPathResults

\* C11 (amended): the two paths give the same results for every line whose
\* text as it stands and whose trimmed text are on the same side of the
\* entropy threshold, however many rules match it; in particular the two sets
\* are equal when no line starts or ends with white space.  A matched line
\* that reaches the threshold only untrimmed has its result on the git path
\* alone, and one that reaches it only trimmed on the file path alone.
C11_BothPathsSameResultsUpToTrimming ==
    (aFile # None /\ aBlob # None) =>
        /\ \A f \in FilePathResults \cup GitPathResults : f.line \in DOMAIN aIn.lines
        /\ \A i \in DOMAIN aIn.lines :
              /\ LineEntropyOk(i) = SnippetEntropyOk(i) =>
                    AtLine(FilePathResults, i) = AtLine(GitPathResults, i)
              /\ (LineEntropyOk(i) /\ ~SnippetEntropyOk(i)) =>
                    /\ AtLine(FilePathResults, i) = {}
                    /\ MatchingRules(i) # <<>> => AtLine(GitPathResults, i) # {}
              /\ (SnippetEntropyOk(i) /\ ~LineEntropyOk(i)) =>
                    /\ AtLine(GitPathResults, i) = {}
                    /\ MatchingRules(i) # <<>> => AtLine(FilePathResults, i) # {}
        /\ (\A i \in DOMAIN aIn.lines : Trim(aIn.lines[i]) = aIn.lines[i]) =>
              FilePathResults = GitPathResults

\* Both paths ran on a text with a line matched by two or more rules that both
\* report alike, and a line that only the git path reports because trimming
\* takes it below the threshold.
C11_Witness ==
    /\ aFile # None /\ aBlob # None
    /\ \E i, j \in DOMAIN aIn.lines :
          /\ Len(MatchingRules(i)) >= 2
          /\ AtLine(FilePathResults, i) # {}
          /\ AtLine(FilePathResults, i) = AtLine(GitPathResults, i)
          /\ LineEntropyOk(j) /\ ~SnippetEntropyOk(j)
          /\ AtLine(GitPathResults, j) # {}
          /\ AtLine(FilePathResults, j) = {}

====
